---------------------------- MODULE Spec2Model ----------------------------
(***************************************************************************)
(* Model of src/app.py: the Moodle feedback-survey export.                 *)
(*                                                                         *)
(*   main():  login -> get_all_users -> download_survey_with_selenium      *)
(*            -> parse_survey_csv -> merge_data -> upload_to_sheets        *)
(*                                                                         *)
(* Text is modelled as a sequence of one-character strings so that         *)
(* str.strip() and str.replace('"', '') are computed, not assumed.         *)
(* A CSV text is modelled as the sequence of its lines, each line being    *)
(* the sequence of fields csv.reader yields for it (a blank line yields    *)
(* the empty sequence).  Python indexes are 0-based; the model's are       *)
(* 1-based, so idx_email and idx_date are one more than in the source.     *)
(***************************************************************************)
EXTENDS Integers, Sequences, FiniteSets, TLC

VARIABLES
    pc,        \* position of the run in main() / upload_to_sheets()
    err,       \* the exception that ended the run, "none" while it runs
    env,       \* the environment variables that are defined (os.getenv)
    calls,     \* the external calls made so far (HTTP, browser, Sheets API)
    session,   \* requests.Session: has the logintoken / sesskey been obtained
    users,     \* all_users: the dict of get_all_users, in insertion order
    csv_text,  \* the downloaded CSV
    survey,    \* the list returned by parse_survey_csv
    table,     \* the list returned by merge_data
    ts,        \* the timestamp taken in upload_to_sheets
    ws,        \* the destination worksheet: cell A1 and the range from B1
    hist,      \* the "Historial" worksheet: whether it exists, and its rows
    hist0      \* the "Historial" worksheet as it was when the run started

vars == <<pc, err, env, calls, session, users, csv_text, survey, table,
          ts, ws, hist, hist0>>

---------------------------------------------------------------------------
(* Bounds of the model *)

MaxCols == 3

MaxRows == 1

MaxUsers == 2

MaxRecords == 2

MaxAnswers == 2

MaxHist == 1

MaxTs == 2

SeqsUpTo(S, n) == UNION {[1..k -> S] : k \in 0..n}

---------------------------------------------------------------------------
(* Text *)

\* "Dirección Email" (src/app.py:262), written without the accent
EmailHeader == <<"D","i","r","e","c","c","i","o","n"," ","E","m","a","i","l">>

\* "Fecha" (src/app.py:263)
DateHeader == <<"F","e","c","h","a">>

Str(c) == <<c>>

Blank == <<>>

IsSpace(c) == c = " "

RECURSIVE LStrip(_)
LStrip(s) ==
    IF s # <<>> /\ IsSpace(Head(s)) THEN LStrip(Tail(s)) ELSE s

RECURSIVE RStrip(_)
RStrip(s) ==
    IF s # <<>> /\ IsSpace(s[Len(s)]) THEN RStrip(SubSeq(s, 1, Len(s) - 1))
    ELSE s

\* str.strip()
Strip(s) == RStrip(LStrip(s))

IsNotQuote(c) == c # "\""

\* str.replace('"', '')
Unquote(s) == SelectSeq(s, IsNotQuote)

\* field.strip().replace('"', '')
Clean(field) == Unquote(Strip(field))

---------------------------------------------------------------------------
(* parse_survey_csv *)

IsBlankLine(line) == line = <<>>

RECURSIVE DropLeadingBlank(_)
DropLeadingBlank(text) ==
    IF text # <<>> /\ IsBlankLine(Head(text)) THEN DropLeadingBlank(Tail(text))
    ELSE text

RECURSIVE DropTrailingBlank(_)
DropTrailingBlank(text) ==
    IF text # <<>> /\ IsBlankLine(text[Len(text)])
    THEN DropTrailingBlank(SubSeq(text, 1, Len(text) - 1))
    ELSE text

\* csv_text.strip() on the lines that are left: the first cell of the first
\* line loses its leading whitespace, the last cell of the last line its
\* trailing whitespace
StripEnds(lines) ==
    LET first == lines[1]
        l1    == [lines EXCEPT ![1] = [first EXCEPT ![1] = LStrip(first[1])]]
        n     == Len(l1)
        last  == l1[n]
    IN  [l1 EXCEPT ![n] = [last EXCEPT ![Len(last)] = RStrip(last[Len(last)])]]

\* csv.reader(csv_text.strip().split("\n")): the text's leading and trailing
\* blank lines are stripped; what is left is at least one (maybe empty) line.
ReadLines(text) ==
    LET stripped == DropTrailingBlank(DropLeadingBlank(text))
    IN  IF stripped = <<>> THEN << <<>> >> ELSE StripEnds(stripped)

RECURSIVE IndexFrom(_, _, _)
IndexFrom(list, x, i) ==
    IF i > Len(list) THEN 0
    ELSE IF list[i] = x THEN i
    ELSE IndexFrom(list, x, i + 1)

\* list.index: the first position of x, 0 standing for ValueError
IndexOf(list, x) == IndexFrom(list, x, 1)

CleanAll(fields) == [i \in 1..Len(fields) |-> Clean(fields[i])]

Returned(v) == [raised |-> "none", value |-> v]

Raised(e) == [raised |-> e, value |-> <<>>]

AnswersOf(data, idx_date) ==
    SubSeq(data, 2, idx_date - 1) \o SubSeq(data, idx_date + 1, Len(data))

\* One iteration of the loop over the data rows
ParseRow(row, idx_email, idx_date) ==
    LET data == CleanAll(row)
    IN  IF idx_email > Len(data) \/ idx_date > Len(data)
        THEN Raised("IndexError")
        ELSE Returned([name    |-> Strip(data[1]),
                       email   |-> Strip(data[idx_email]),
                       answers |-> AnswersOf(data, idx_date),
                       date    |-> data[idx_date]])

RECURSIVE ParseRows(_, _, _, _)
ParseRows(rows, idx_email, idx_date, survey_data) ==
    IF rows = <<>> THEN Returned(survey_data)
    ELSE LET r == ParseRow(Head(rows), idx_email, idx_date)
         IN  IF r.raised # "none" THEN r
             ELSE ParseRows(Tail(rows), idx_email, idx_date,
                            Append(survey_data, r.value))

\* Mutant of parse_survey_csv: a header that is not found stands for the
\* first column instead of ending the parse
parse_survey_csv_default_column(text) ==
    LET lines     == ReadLines(text)
        headers   == CleanAll(Head(lines))
        found_e   == IndexOf(headers, EmailHeader)
        found_d   == IndexOf(headers, DateHeader)
        idx_email == IF found_e = 0 THEN 1 ELSE found_e
        idx_date  == IF found_d = 0 THEN 1 ELSE found_d
    IN  ParseRows(Tail(lines), idx_email, idx_date, <<>>)

parse_survey_csv(text) ==
    LET lines     == ReadLines(text)
        headers   == CleanAll(Head(lines))
        idx_email == IndexOf(headers, EmailHeader)
        idx_date  == IndexOf(headers, DateHeader)
    IN  IF idx_email = 0 \/ idx_date = 0 THEN Returned(<<>>)
        ELSE ParseRows(Tail(lines), idx_email, idx_date, <<>>)

---------------------------------------------------------------------------
(* get_all_users *)

HasEmail(list, email) == \E i \in 1..Len(list) : list[i].email = email

\* users[email] = {...}: a new key is added last, an existing key keeps its
\* place and takes the new value
DictPut(list, u) ==
    IF HasEmail(list, u.email)
    THEN [i \in 1..Len(list) |-> IF list[i].email = u.email THEN u ELSE list[i]]
    ELSE Append(list, u)

\* The loop over res.json()[0]["data"]["users"]; an entry without an email
\* (Blank) is left out
RECURSIVE CollectUsers(_, _)
CollectUsers(data, acc) ==
    IF data = <<>> THEN acc
    ELSE LET u == Head(data)
         IN  IF u.email = Blank THEN CollectUsers(Tail(data), acc)
             ELSE CollectUsers(Tail(data),
                               DictPut(acc, [name |-> u.fullname, email |-> u.email]))

get_all_users(data) == CollectUsers(data, <<>>)

---------------------------------------------------------------------------
(* merge_data *)

\* f"Pregunta {i+1}" for i in range(n)
SampleQs(n) == [i \in 1..n |-> <<"Pregunta", i>>]

TableHeader(first) ==
    <<"Nombre Completo", "Grupos", "Fecha de Encuesta", "Email de Encuestados">>
        \o SampleQs(Len(first.answers))

RECURSIVE MatchFrom(_, _, _)
MatchFrom(list, email, i) ==
    IF i > Len(list) THEN 0
    ELSE IF list[i].email = email THEN i
    ELSE MatchFrom(list, email, i + 1)

RECURSIVE LastMatchFrom(_, _, _)
LastMatchFrom(list, email, i) ==
    IF i < 1 THEN 0
    ELSE IF list[i].email = email THEN i
    ELSE LastMatchFrom(list, email, i - 1)

\* Mutant of FirstMatch: the last record of the email wins
LastMatch(list, email) == LastMatchFrom(list, email, Len(list))

\* next((entry for entry in survey if entry["email"] == email), None):
\* the position of the first match, 0 standing for None
FirstMatch(list, email) == MatchFrom(list, email, 1)

\* next((entry["date"] for entry in survey if ...), "")
FirstDate(list, email) ==
    LET i == FirstMatch(list, email)
    IN  IF i = 0 THEN Blank ELSE list[i].date

\* answers[1:]
Rest(answers) == IF answers = <<>> THEN <<>> ELSE Tail(answers)

\* One iteration of the loop over all_users.values()
MergeRow(user, list) ==
    LET i == FirstMatch(list, user.email)
    IN  IF i = 0
        THEN Returned(<<user.name, Blank, FirstDate(list, user.email)>>)
        ELSE IF list[i].answers = <<>>
        THEN Raised("IndexError")
        ELSE Returned(<<user.name, list[i].answers[1], FirstDate(list, user.email)>>
                          \o Rest(list[i].answers))

\* Mutant of MergeRows: a user who matches no record gets no row
RECURSIVE MergeRowsOfRespondents(_, _, _)
MergeRowsOfRespondents(all_users, list, tbl) ==
    IF all_users = <<>> THEN Returned(tbl)
    ELSE LET r == MergeRow(Head(all_users), list)
         IN  IF r.raised # "none" THEN r
             ELSE IF FirstMatch(list, Head(all_users).email) = 0
             THEN MergeRowsOfRespondents(Tail(all_users), list, tbl)
             ELSE MergeRowsOfRespondents(Tail(all_users), list,
                                         Append(tbl, r.value))

RECURSIVE MergeRows(_, _, _)
MergeRows(all_users, list, tbl) ==
    IF all_users = <<>> THEN Returned(tbl)
    ELSE LET r == MergeRow(Head(all_users), list)
         IN  IF r.raised # "none" THEN r
             ELSE MergeRows(Tail(all_users), list, Append(tbl, r.value))

merge_data(all_users, list) ==
    IF list = <<>> THEN Returned(<<>>)
    ELSE MergeRows(all_users, list, <<TableHeader(list[1])>>)

---------------------------------------------------------------------------
(* Inputs *)

required_env_vars ==
    <<"USERNAME", "PASSWORD", "COURSE_ID", "SPREADSHEET_NAME",
      "WORKSHEET_NAME", "GOOGLE_CREDENTIALS_FILE", "SURVEY_ID">>

RequiredSet == {required_env_vars[i] : i \in 1..Len(required_env_vars)}

\* Header cells as csv.reader yields them: the two required headers, a date
\* header after a blank and with a stray double quote ( Fecha"), and a
\* header that is neither.  No cell of the inputs begins with a double
\* quote, which csv.reader would take for quoting.
PaddedDateHeader == <<" ">> \o DateHeader \o <<"\"">>

HeaderFields == {EmailHeader, DateHeader, PaddedDateHeader, Str("Q")}

\* Data cells: a plain one, and one that strip() and replace() both change
\* and that the second strip() of the name and the email changes again
DataFields == {Str("a"), <<" ", "b", " ", "\"">>}

\* The header line and the data lines of a CSV text
HeaderLines == SeqsUpTo(HeaderFields, MaxCols)

RowLists == SeqsUpTo(SeqsUpTo(DataFields, MaxCols), MaxRows)

Emails == {Str("a"), Str("b"), Str("c")}

NameOf(email) == <<"N">> \o email

IsRoster(list) ==
    \A i, j \in 1..Len(list) : list[i].email = list[j].email => i = j

\* The dicts get_all_users can return: the keys (emails) are distinct
Rosters ==
    {r \in SeqsUpTo({[name |-> NameOf(e), email |-> e] : e \in Emails}, MaxUsers) :
        IsRoster(r)}

\* The answers of a record: none, or a first answer (the group) and more
AnswerLists ==
    {<<>>} \cup {<<g>> \o more : g \in {Str("g"), Str("h")},
                                 more \in SeqsUpTo({Str("x")}, MaxAnswers - 1)}

Records ==
    [name    : {Str("n")},
     email   : {Str("a"), Str("b")},
     answers : AnswerLists,
     date    : {Str("1"), Str("2")}]

Surveys == SeqsUpTo(Records, MaxRecords)

\* What the roster call can answer: an entry may lack its email, and two
\* entries may share one
ApiUsers ==
    {[fullname |-> Str("A"), email |-> Str("a")],
     [fullname |-> Str("B"), email |-> Str("b")],
     [fullname |-> Str("C"), email |-> Blank]}

ApiData == SeqsUpTo(ApiUsers, MaxUsers)

Q == Str("Q")

\* The CSV exports of the whole run
SampleCsvs ==
    { <<>>,
      << <<Q, EmailHeader, DateHeader>> >>,
      << <<Q, EmailHeader>>, <<Str("n"), Str("a")>> >>,
      << <<Q, Q, EmailHeader, DateHeader, Q>>,
         <<Str("n"), Str("g"), Str("a"), Str("1"), Str("x")>> >>,
      << <<Q, Q, EmailHeader, DateHeader, Q>>,
         <<Str("n"), Str("g"), Str("b"), Str("1"), Str("x")>>,
         <<Str("m"), Str("h"), Str("b"), Str("2"), Str("y")>>, <<>> >>,
      << <<EmailHeader, DateHeader>>, <<Str("a"), Str("1")>> >>,
      << <<Q, EmailHeader, DateHeader>>, <<Str("n"), Str("a"), Str("1")>>,
         <<Str("m")>> >> }

HistRow(t) == <<"Ejecucion registrada el:", t>>

Banner(t) == <<"Actualizado el:", t>>

Histories ==
    {[exists |-> FALSE, rows |-> <<>>]}
        \cup {[exists |-> TRUE, rows |-> r] :
                 r \in SeqsUpTo({HistRow(t) : t \in 1..MaxTs}, MaxHist)}

\* The destination worksheet as an earlier run left it
PreviousSheet ==
    [A1 |-> Banner(0), B1 |-> << <<"Nombre Completo", "Grupos">>, <<Str("Z"), Str("g")>> >>]

ClearedSheet == [A1 |-> Blank, B1 |-> <<>>]

---------------------------------------------------------------------------
(* The run *)

NoError == [type |-> "none", detail |-> ""]

Init ==
    /\ pc = "start"
    /\ err = NoError
    /\ env \in SUBSET RequiredSet
    /\ calls = <<>>
    /\ session = [logintoken |-> FALSE, sesskey |-> FALSE]
    /\ users = <<>>
    /\ csv_text = <<>>
    /\ survey = <<>>
    /\ table = <<>>
    /\ ts = 0
    /\ ws = PreviousSheet
    /\ hist \in Histories
    /\ hist0 = hist

\* raise: main() prints the error and re-raises it, which ends the process
Fail(type, detail) == pc' = "failed" /\ err' = [type |-> type, detail |-> detail]

RECURSIVE FirstMissing(_)
FirstMissing(i) ==
    IF i > Len(required_env_vars) THEN 0
    ELSE IF required_env_vars[i] \notin env THEN i
    ELSE FirstMissing(i + 1)

\* The module-level check of the required environment variables
CheckEnv ==
    /\ pc = "start"
    /\ IF FirstMissing(1) # 0
       THEN Fail("EnvironmentError", required_env_vars[FirstMissing(1)])
       ELSE pc' = "login" /\ err' = err
    /\ UNCHANGED <<env, calls, session, users, csv_text, survey, table, ts,
                   ws, hist, hist0>>

\* login(): GET login/index.php, raise_for_status, search the logintoken
LoginPage ==
    /\ pc = "login"
    /\ calls' = Append(calls, "GET login/index.php")
    /\ \E res \in {"http_error", "no_logintoken", "ok"} :
           CASE res = "http_error" ->
                    Fail("HTTPError", "raise_for_status") /\ session' = session
             [] res = "no_logintoken" ->
                    Fail("RuntimeError", "logintoken") /\ session' = session
             [] OTHER ->
                    /\ session' = [session EXCEPT !.logintoken = TRUE]
                    /\ pc' = "login_post" /\ err' = err
    /\ UNCHANGED <<env, users, csv_text, survey, table, ts, ws, hist, hist0>>

\* login(): POST the credentials, raise_for_status
LoginPost ==
    /\ pc = "login_post"
    /\ calls' = Append(calls, "POST login/index.php")
    /\ \E res \in {"http_error", "ok"} :
           IF res = "http_error" THEN Fail("HTTPError", "raise_for_status")
           ELSE pc' = "login_my" /\ err' = err
    /\ UNCHANGED <<env, session, users, csv_text, survey, table, ts, ws,
                   hist, hist0>>

\* Mutant of LoginDashboard: a dashboard without sesskey does not raise
LoginDashboardUnchecked ==
    /\ pc = "login_my"
    /\ calls' = Append(calls, "GET my/")
    /\ \E res \in {"http_error", "no_sesskey", "ok"} :
           CASE res = "http_error" ->
                    Fail("HTTPError", "raise_for_status") /\ session' = session
             [] res = "no_sesskey" ->
                    /\ session' = session
                    /\ pc' = "get_all_users" /\ err' = err
             [] OTHER ->
                    /\ session' = [session EXCEPT !.sesskey = TRUE]
                    /\ pc' = "get_all_users" /\ err' = err
    /\ UNCHANGED <<env, users, csv_text, survey, table, ts, ws, hist, hist0>>

\* login(): GET my/, raise_for_status, search the sesskey
LoginDashboard ==
    /\ pc = "login_my"
    /\ calls' = Append(calls, "GET my/")
    /\ \E res \in {"http_error", "no_sesskey", "ok"} :
           CASE res = "http_error" ->
                    Fail("HTTPError", "raise_for_status") /\ session' = session
             [] res = "no_sesskey" ->
                    Fail("RuntimeError", "sesskey") /\ session' = session
             [] OTHER ->
                    /\ session' = [session EXCEPT !.sesskey = TRUE]
                    /\ pc' = "get_all_users" /\ err' = err
    /\ UNCHANGED <<env, users, csv_text, survey, table, ts, ws, hist, hist0>>

GetAllUsers ==
    /\ pc = "get_all_users"
    /\ calls' = Append(calls, "POST lib/ajax/service.php")
    /\ \/ Fail("HTTPError", "raise_for_status") /\ users' = users
       \/ \E data \in ApiData :
              /\ users' = get_all_users(data)
              /\ pc' = "download" /\ err' = err
    /\ UNCHANGED <<env, session, csv_text, survey, table, ts, ws, hist, hist0>>

DownloadSurvey ==
    /\ pc = "download"
    /\ calls' = Append(calls, "selenium")
    /\ \/ Fail("Exception", "selenium") /\ csv_text' = csv_text
       \/ \E text \in SampleCsvs :
              /\ csv_text' = text
              /\ pc' = "parse" /\ err' = err
    /\ UNCHANGED <<env, session, users, survey, table, ts, ws, hist, hist0>>

ParseSurveyCsv ==
    /\ pc = "parse"
    /\ LET r == parse_survey_csv(csv_text)
       IN  IF r.raised # "none"
           THEN Fail(r.raised, "parse_survey_csv") /\ survey' = survey
           ELSE survey' = r.value /\ pc' = "merge" /\ err' = err
    /\ UNCHANGED <<env, calls, session, users, csv_text, table, ts, ws,
                   hist, hist0>>

MergeData ==
    /\ pc = "merge"
    /\ LET r == merge_data(users, survey)
       IN  IF r.raised # "none"
           THEN Fail(r.raised, "merge_data") /\ table' = table
           ELSE table' = r.value /\ pc' = "upload" /\ err' = err
    /\ UNCHANGED <<env, calls, session, users, csv_text, survey, ts, ws,
                   hist, hist0>>

---------------------------------------------------------------------------
(* upload_to_sheets *)

\* What a call of the Sheets API can do: succeed; raise although the sheet
\* took the change (the answer was lost); raise without any change
Outcomes == {"ok", "lost", "refused"}

Applied(o) == o # "refused"

\* Credentials, gspread.authorize, client.open, sh.worksheet
OpenSheet ==
    /\ pc = "upload"
    /\ calls' = Append(calls, "sh.worksheet")
    /\ \E o \in {"ok", "refused"} :
           IF o = "ok" THEN pc' = "ws_clear" /\ err' = err
           ELSE Fail("SheetsError", "open")
    /\ UNCHANGED <<env, session, users, csv_text, survey, table, ts, ws,
                   hist, hist0>>

\* ws.clear(), then ts = datetime.now()
WsClear ==
    /\ pc = "ws_clear"
    /\ calls' = Append(calls, "ws.clear")
    /\ \E o \in Outcomes :
           /\ ws' = IF Applied(o) THEN ClearedSheet ELSE ws
           /\ IF o = "ok"
              THEN /\ \E now \in 1..MaxTs : ts' = now
                   /\ pc' = "ws_banner" /\ err' = err
              ELSE Fail("APIError", "gspread") /\ ts' = ts
    /\ UNCHANGED <<env, session, users, csv_text, survey, table, hist, hist0>>

\* ws.update("A1", [[f"Actualizado el: {ts}"]])
WsUpdateA1 ==
    /\ pc = "ws_banner"
    /\ calls' = Append(calls, "ws.update A1")
    /\ \E o \in Outcomes :
           /\ ws' = IF Applied(o) THEN [ws EXCEPT !.A1 = Banner(ts)] ELSE ws
           /\ IF o = "ok" THEN pc' = "ws_table" /\ err' = err
              ELSE Fail("APIError", "gspread")
    /\ UNCHANGED <<env, session, users, csv_text, survey, table, ts, hist, hist0>>

\* Mutant of WsUpdateB1: a failed write of the table is swallowed
WsUpdateB1Swallowed ==
    /\ pc = "ws_table"
    /\ calls' = Append(calls, "ws.update B1")
    /\ \E o \in Outcomes :
           /\ ws' = IF Applied(o) THEN [ws EXCEPT !.B1 = table] ELSE ws
           /\ pc' = "hist_lookup" /\ err' = err
    /\ UNCHANGED <<env, session, users, csv_text, survey, table, ts, hist, hist0>>

\* ws.update("B1", table)
WsUpdateB1 ==
    /\ pc = "ws_table"
    /\ calls' = Append(calls, "ws.update B1")
    /\ \E o \in Outcomes :
           /\ ws' = IF Applied(o) THEN [ws EXCEPT !.B1 = table] ELSE ws
           /\ IF o = "ok" THEN pc' = "hist_lookup" /\ err' = err
              ELSE Fail("APIError", "gspread")
    /\ UNCHANGED <<env, session, users, csv_text, survey, table, ts, hist, hist0>>

\* hist = sh.worksheet("Historial"), WorksheetNotFound caught
HistLookup ==
    /\ pc = "hist_lookup"
    /\ calls' = Append(calls, "sh.worksheet Historial")
    /\ \E o \in {"ok", "refused"} :
           IF o = "refused" THEN Fail("APIError", "gspread")
           ELSE /\ pc' = IF hist.exists THEN "hist_append" ELSE "hist_add"
                /\ err' = err
    /\ UNCHANGED <<env, session, users, csv_text, survey, table, ts, ws,
                   hist, hist0>>

\* sh.add_worksheet(title="Historial", ...)
HistAdd ==
    /\ pc = "hist_add"
    /\ calls' = Append(calls, "sh.add_worksheet Historial")
    /\ \E o \in Outcomes :
           /\ hist' = IF Applied(o) THEN [exists |-> TRUE, rows |-> <<>>] ELSE hist
           /\ IF o = "ok" THEN pc' = "hist_append" /\ err' = err
              ELSE Fail("APIError", "gspread")
    /\ UNCHANGED <<env, session, users, csv_text, survey, table, ts, ws, hist0>>

\* hist.append_row(ts_log); upload_to_sheets and main return
HistAppend ==
    /\ pc = "hist_append"
    /\ calls' = Append(calls, "hist.append_row")
    /\ \E o \in Outcomes :
           /\ hist' = IF Applied(o)
                      THEN [hist EXCEPT !.rows = Append(@, HistRow(ts))]
                      ELSE hist
           /\ IF o = "ok" THEN pc' = "done" /\ err' = err
              ELSE Fail("APIError", "gspread")
    /\ UNCHANGED <<env, session, users, csv_text, survey, table, ts, ws, hist0>>

UploadToSheets ==
    \/ OpenSheet
    \/ WsClear
    \/ WsUpdateA1
    \/ WsUpdateB1
    \/ HistLookup
    \/ HistAdd
    \/ HistAppend

Login == LoginPage \/ LoginPost \/ LoginDashboard

\* main(), after the module-level configuration check
Next ==
    \/ CheckEnv
    \/ Login
    \/ GetAllUsers
    \/ DownloadSurvey
    \/ ParseSurveyCsv
    \/ MergeData
    \/ UploadToSheets

Spec == Init /\ [][Next]_vars

\* The state in which main() calls parse_survey_csv or merge_data
Called(p) ==
    /\ pc = p
    /\ err = NoError
    /\ env = RequiredSet
    /\ calls = <<"GET login/index.php", "POST login/index.php", "GET my/",
                 "POST lib/ajax/service.php", "selenium">>
    /\ session = [logintoken |-> TRUE, sesskey |-> TRUE]
    /\ table = <<>>
    /\ ts = 0
    /\ ws = PreviousSheet
    /\ hist = [exists |-> FALSE, rows |-> <<>>]
    /\ hist0 = hist

\* parse_survey_csv on every CSV text of the bounds
InitParse ==
    /\ Called("parse")
    /\ users = <<>>
    /\ \E h \in HeaderLines : \E rows \in RowLists : csv_text = <<h>> \o rows
    /\ survey = <<>>

NextParse == ParseSurveyCsv

SpecParse == InitParse /\ [][NextParse]_vars

\* merge_data on every roster and every survey of the bounds
InitMerge ==
    /\ Called("merge")
    /\ users \in Rosters
    /\ csv_text = <<>>
    /\ survey \in Surveys

NextMerge == MergeData

SpecMerge == InitMerge /\ [][NextMerge]_vars

---------------------------------------------------------------------------
(* Claims about merge_data, checked under SpecMerge *)

\* merge_data has returned its table
MergeReturned == pc = "upload"

DataRows(t) == IF t = <<>> THEN <<>> ELSE Tail(t)

Matches(email) == {i \in 1..Len(survey) : survey[i].email = email}

OneRowPerUser ==
    /\ Len(DataRows(table)) = Len(users)
    /\ \A k \in 1..Len(users) :
           /\ DataRows(table)[k][1] = users[k].name
           /\ Matches(users[k].email) = {} =>
                  /\ DataRows(table)[k][2] = Blank
                  /\ DataRows(table)[k][3] = Blank

\* C1, as stated: whatever the roster and the survey records, the empty
\* sequence included, the returned table has exactly one data row per user
\* of the roster, in roster order, blank where no record matches.
C1_RowPerUserAlways == MergeReturned => OneRowPerUser

\* C1, amended: for a non-empty sequence of survey records the returned
\* table is the header followed by exactly one data row per user of the
\* roster, in roster order, blank where no record matches; for the empty
\* sequence the returned table is empty, without header or rows.  No table
\* is returned (IndexError) only when the first record matching some user
\* has no answers.
C1_RowPerUserOfNonEmptySurvey ==
    /\ MergeReturned =>
           IF survey = <<>> THEN table = <<>>
           ELSE Len(table) = Len(users) + 1 /\ OneRowPerUser
    /\ pc = "failed" =>
           \E k \in 1..Len(users) : \E i \in Matches(users[k].email) :
               /\ \A m \in Matches(users[k].email) : i <= m
               /\ survey[i].answers = <<>>

C1_Witness ==
    /\ MergeReturned
    /\ survey # <<>>
    /\ Len(users) = 2
    /\ Matches(users[1].email) = {}
    /\ Matches(users[2].email) # {}
    /\ Len(table) = 3

\* C4: first match wins.  When two or more records share a user's email,
\* the group, the date and the answers of that user's row are those of the
\* earliest such record.
C4_FirstMatchWins ==
    MergeReturned =>
        \A k \in 1..Len(users) : \A i, j \in Matches(users[k].email) :
            (i < j /\ \A m \in Matches(users[k].email) : i <= m) =>
                /\ survey[i].answers # <<>>
                /\ table[k + 1] =
                       <<users[k].name, survey[i].answers[1], survey[i].date>>
                           \o Tail(survey[i].answers)

C4_Witness ==
    /\ MergeReturned
    /\ \E k \in 1..Len(users) : \E i, j \in Matches(users[k].email) :
           /\ i < j
           /\ survey[j].answers # <<>>
           /\ survey[i].answers[1] # survey[j].answers[1]
           /\ survey[i].date # survey[j].date
           /\ table[k + 1][2] = survey[i].answers[1]
           /\ table[k + 1][3] = survey[i].date

\* C5: the returned table is rectangular, every data row having as many
\* cells as the header row.
C5_Rectangular ==
    MergeReturned =>
        \A k \in 1..Len(DataRows(table)) :
            Len(DataRows(table)[k]) = Len(table[1])

---------------------------------------------------------------------------
(* Claims about parse_survey_csv, checked under SpecParse *)

ParseRan == pc # "parse"

ParseReturned == pc = "merge"

HeaderLine == Head(ReadLines(csv_text))

DataLines == Tail(ReadLines(csv_text))

Cells(line) == {line[i] : i \in 1..Len(line)}

CleanCells(line) == {Clean(line[i]) : i \in 1..Len(line)}

Columns(h) == {i \in 1..Len(HeaderLine) : Clean(HeaderLine[i]) = h}

\* C2, as stated: when the header line lacks the exact header
\* "Dirección Email" or the exact header "Fecha", the parser returns the
\* empty sequence and does not raise, whatever the data rows hold.
C2_NoExactHeaderNoRecords ==
    (/\ ParseRan
     /\ \/ EmailHeader \notin Cells(HeaderLine)
        \/ DateHeader \notin Cells(HeaderLine))
        => ParseReturned /\ survey = <<>>

\* C2, amended: when the header line, each header stripped of surrounding
\* whitespace and then of its double quotes, lacks "Dirección Email" or
\* "Fecha", the parser returns the empty sequence and does not raise,
\* whatever the data rows hold.
C2_NoCleanHeaderNoRecords ==
    (/\ ParseRan
     /\ \/ EmailHeader \notin CleanCells(HeaderLine)
        \/ DateHeader \notin CleanCells(HeaderLine))
        => ParseReturned /\ survey = <<>>

C2_Witness ==
    /\ ParseReturned
    /\ EmailHeader \in CleanCells(HeaderLine)
    /\ DateHeader \notin CleanCells(HeaderLine)
    /\ 1 \notin Columns(EmailHeader)
    /\ DataLines # <<>>
    /\ Len(Head(DataLines)) = 1
    /\ survey = <<>>

RECURSIVE FieldsFrom(_, _, _)
FieldsFrom(row, j, skip) ==
    IF j > Len(row) THEN <<>>
    ELSE (IF j \in skip THEN <<>> ELSE <<Clean(row[j])>>)
             \o FieldsFrom(row, j + 1, skip)

\* The header names each required column once, after the first column
RequiredColumnsAfterName ==
    /\ Cardinality(Columns(EmailHeader)) = 1
    /\ Cardinality(Columns(DateHeader)) = 1
    /\ 1 \notin Columns(EmailHeader) \cup Columns(DateHeader)

Routed(k) ==
    LET e == CHOOSE i \in Columns(EmailHeader) : TRUE
        d == CHOOSE i \in Columns(DateHeader) : TRUE
    IN  /\ survey[k].name = Strip(Clean(DataLines[k][1]))
        /\ survey[k].email = Strip(Clean(DataLines[k][e]))
        /\ survey[k].date = Clean(DataLines[k][d])

AnswersAreTheOtherColumns(k) ==
    survey[k].answers =
        FieldsFrom(DataLines[k], 1,
                   {1} \cup Columns(EmailHeader) \cup Columns(DateHeader))

\* C3: with both required headers anywhere after the first column, each
\* record has name = first field, email = the field of the email column,
\* date = the field of the date column, and answers = exactly the fields
\* of the columns that are neither name, email nor date, in source order.
C3_AnswersExcludeNameEmailDate ==
    (ParseReturned /\ RequiredColumnsAfterName) =>
        \A k \in 1..Len(survey) : Routed(k) /\ AnswersAreTheOtherColumns(k)

TooShort(row) ==
    \E i \in Columns(EmailHeader) \cup Columns(DateHeader) : Len(row) < i

WellFormed == SelectSeq(DataLines, LAMBDA row : ~TooShort(row))

\* C8: with both required headers present, a data row too short to reach
\* the email or the date column is skipped: the parser does not raise and
\* returns one record per well-formed row, in source order.
C8_ShortRowSkipped ==
    (/\ ParseRan
     /\ Columns(EmailHeader) # {}
     /\ Columns(DateHeader) # {}
     /\ \E k \in 1..Len(DataLines) : TooShort(DataLines[k]))
        => ParseReturned /\ Len(survey) = Len(WellFormed)

---------------------------------------------------------------------------
(* Claims about the whole run, checked under Spec *)

SheetOps ==
    {"sh.worksheet", "ws.clear", "ws.update A1", "ws.update B1",
     "sh.worksheet Historial", "sh.add_worksheet Historial", "hist.append_row"}

IsSheetOp(c) == c \in SheetOps

\* The calls of the Sheets API so far, in order
SheetCalls == SelectSeq(calls, IsSheetOp)

IsPrefix(a, b) == Len(a) <= Len(b) /\ a = SubSeq(b, 1, Len(a))

\* upload_to_sheets has been called
Uploading ==
    \/ pc \in {"upload", "ws_clear", "ws_banner", "ws_table", "hist_lookup",
               "hist_add", "hist_append", "done"}
    \/ pc = "failed" /\ err.type \in {"SheetsError", "APIError"}

\* C6: in survey mode the header row of the table has 4 + A columns, A
\* being the number of columns of the CSV other than the name column, the
\* email column and the date column.
C6_HeaderIsFourPlusAnswerColumns ==
    table # <<>> =>
        Len(table[1]) =
            4 + Cardinality((1..Len(HeaderLine)) \
                    ({1} \cup Columns(EmailHeader) \cup Columns(DateHeader)))

\* C7: when the survey yields no records the run publishes nothing: the
\* destination worksheet keeps its previous contents, neither cleared nor
\* overwritten.
C7_EmptySurveyNotPublished ==
    (Uploading /\ survey = <<>>) => ws = PreviousSheet

PublisherOrder ==
    <<"sh.worksheet", "ws.clear", "ws.update A1", "ws.update B1",
      "sh.worksheet Historial">>
        \o (IF hist0.exists THEN <<>> ELSE <<"sh.add_worksheet Historial">>)
        \o <<"hist.append_row">>

Published == [A1 |-> Banner(ts), B1 |-> table]

\* C9: the publisher clears the worksheet, then writes the banner at A1,
\* then the table from B1, and only then appends exactly one row
\* ("Ejecución registrada el:", timestamp) to the history sheet, created
\* first if absent; the earlier history rows are never changed or removed,
\* and a run that fails before the table is written appends no row.
C9_PublisherOrder ==
    /\ IsPrefix(SheetCalls, PublisherOrder)
    /\ ws \in {PreviousSheet, ClearedSheet,
               [ClearedSheet EXCEPT !.A1 = Banner(ts)], Published}
    /\ hist0.exists => hist.exists
    /\ IsPrefix(hist0.rows, hist.rows)
    /\ hist.rows # hist0.rows =>
           /\ hist.rows = Append(hist0.rows, HistRow(ts))
           /\ ws = Published
           /\ SheetCalls = PublisherOrder
    /\ pc = "done" =>
           /\ SheetCalls = PublisherOrder
           /\ ws = Published
           /\ hist = [exists |-> TRUE, rows |-> Append(hist0.rows, HistRow(ts))]

C9_Witness ==
    /\ pc = "done"
    /\ ~hist0.exists
    /\ Len(table) > 1
    /\ hist.rows = <<HistRow(ts)>>
    /\ ws = Published

Untouched ==
    /\ ws = PreviousSheet
    /\ hist = hist0
    /\ SheetCalls = <<>>
    /\ users = <<>> /\ csv_text = <<>> /\ survey = <<>> /\ table = <<>>

\* C10: a fatal error stops the run before the spreadsheet is touched.  A
\* missing setting aborts before any network activity; a login page
\* without logintoken, or a dashboard without sesskey, aborts the run; in
\* each case no later stage runs, the worksheet is neither cleared nor
\* written and no history row is appended.
C10_FatalErrorStopsTheRun ==
    /\ env # RequiredSet => pc \in {"start", "failed"} /\ calls = <<>>
    /\ (pc = "failed" /\ err.type = "EnvironmentError") =>
           /\ err.detail \notin env
           /\ calls = <<>>
           /\ Untouched
    /\ ~session.logintoken => pc \in {"start", "login", "failed"}
    /\ ~session.sesskey =>
           pc \in {"start", "login", "login_post", "login_my", "failed"}
    /\ (pc = "failed" /\ err.type = "RuntimeError") =>
           /\ Untouched
           /\ calls = IF err.detail = "logintoken"
                      THEN <<"GET login/index.php">>
                      ELSE <<"GET login/index.php", "POST login/index.php",
                             "GET my/">>

C10_Witness ==
    /\ pc = "failed"
    /\ err = [type |-> "RuntimeError", detail |-> "sesskey"]
    /\ session.logintoken
    /\ hist0.rows # <<>>
    /\ Untouched

===========================================================================
